---- MODULE Spec2Model ----
(***************************************************************************)
(* Model of the TIA Openness API client:                                   *)
(*   - tia_portal/config.py : the per-user settings file (config.ini),     *)
(*     the process-wide VERSION, load() and set_version().                 *)
(*   - examples/read_blocks_wsl.py : main(), the entry script that loads   *)
(*     the configuration, discovers running instances, attaches to one,    *)
(*     and compiles / exports the blocks of every PLC.                     *)
(* The vendor automation API, the operator's keyboard input and the        *)
(* settings file found on disk are the environment: their outcomes are     *)
(* chosen nondeterministically from small sets.                            *)
(***************************************************************************)
EXTENDS Integers, Sequences, FiniteSets, TLC

VARIABLES
    \* ---- tia_portal/config.py ----
    file,          \* config.ini: [exists, hasUser, dflt, user]
    dirExists,     \* DATA_PATH exists
    VERSION,       \* module-level VERSION (name of the TiaVersion member)
    lastOp,        \* the last config call: [op, arg, raised]
    prevOp,        \* the config call before lastOp
    prevFile,      \* config.ini as it was before lastOp
    prevVERSION,   \* VERSION as it was before lastOp
    \* ---- examples/read_blocks_wsl.py, main() ----
    pc,            \* position in the script
    argVersion,    \* args.version (NoValue when the flag is not given)
    argDebug,      \* args.debug
    tia_processes, \* len(tia_processes), -1 before the discovery returned
    typed,         \* what input() returned, one entry per prompt
    selected_process, \* 1-based index of the selected instance, 0 when none
    attachCalls,   \* the instances Attach() was called on, in order
    attached,      \* Attach() returned a session
    projectHandles,\* number of Project(...) objects created
    plcs,          \* len(plcs), the PLCs returned by get_plcs()
    plcIdx,        \* 1-based position of the PLC being processed
    blockCounts,   \* len(software_blocks) of every PLC whose blocks were listed
    blockIdx,      \* number of blocks of the current PLC already iterated
    export_path,   \* TRUE when export_path holds a path, FALSE when it is None
    successful_exports,
    exportLog,     \* every block.export() call: [plc, block, ok]
    compileCalls,  \* number of project.compile() calls
    finishedLoops, \* number of PLCs whose export loop ran to its end
    reported,      \* the "Exported a of b blocks" lines: [plc, count, total]
    caught,        \* the outer "except Exception" handler ran
    tracePrinted,  \* traceback.print_exc() ran
    pendingExit,   \* code of a SystemExit travelling through finally, -1 if none
    leftRunning,   \* number of times the finally clause ran
    exitCode,      \* exit code of the process, -1 while it runs
    calls,         \* the calls made to the vendor API, in order: [op, ok]
    \* ---- tia_portal/config.py, environment detection and path helpers ----
    machine,       \* what the probes of detect_wsl() find on this machine
    IS_WSL,        \* module-level IS_WSL
    detectCalls,   \* number of detect_wsl() calls made
    detected,      \* what the last detect_wsl() call returned
    probes,        \* the probes the last detect_wsl() call consulted, in order
    pathCalls,     \* number of path helper calls made
    pathFn,        \* the path helper called last
    pathIn,        \* its argument
    pathOut,       \* what it returned
    pathRaised,    \* an exception escaped from it
    utilityRuns,   \* number of subprocess.run calls it made
    utilityKind    \* how the utility ended in it, "not_run" when it was not run

cfgVars == <<file, dirExists, VERSION, lastOp, prevOp, prevFile, prevVERSION>>

runVars == <<pc, argVersion, argDebug, tia_processes, typed, selected_process,
             attachCalls, attached, projectHandles, plcs, plcIdx, blockCounts,
             blockIdx, export_path, successful_exports, exportLog, compileCalls,
             finishedLoops, reported, caught, tracePrinted, pendingExit,
             leftRunning, exitCode, calls>>

envVars == <<machine, IS_WSL, detectCalls, detected, probes, pathCalls, pathFn,
             pathIn, pathOut, pathRaised, utilityRuns, utilityKind>>

vars == <<cfgVars, runVars, envVars>>

----------------------------------------------------------------------------
\* Bounds of the model
MaxInstances == 2
MaxPLCs == 2
MaxBlocks == 2
MaxPathLen == 3
MaxDetectCalls == 2

----------------------------------------------------------------------------
\* tia_portal/config.py

NoValue == "none"

\* The members of TiaVersion the script accepts for --version
TiaVersionNames == {"V15", "V15_1", "V16", "V17", "V18", "V19"}

\* A version name a hand-edited config.ini may hold that is no TiaVersion member
UnknownNames == {"V14"}

\* The values of a version key in the files the model starts from: two members,
\* a name that is no member, and no key at all
StoredValues == {"V17", "V19"} \cup UnknownNames \cup {NoValue}

\* The values of --version the model runs the script with
ArgVersions == {NoValue, "V16"}

NoFile == [exists |-> FALSE, hasUser |-> FALSE, dflt |-> NoValue, user |-> NoValue]

\* Every config.ini the process may find on disk
Files ==
    {NoFile}
    \cup { [exists |-> TRUE, hasUser |-> FALSE, dflt |-> d, user |-> NoValue] :
             d \in StoredValues }
    \cup { [exists |-> TRUE, hasUser |-> TRUE, dflt |-> d, user |-> u] :
             d \in StoredValues, u \in StoredValues }

NoOp == [op |-> "none", arg |-> NoValue, raised |-> FALSE]

\* The file load() writes when config.ini is missing
DefaultFile_V17 ==
    [exists |-> TRUE, hasUser |-> TRUE, dflt |-> "V17", user |-> NoValue]

DefaultFile ==
    [exists |-> TRUE, hasUser |-> TRUE, dflt |-> "V19", user |-> NoValue]

\* config.read(CONFIG_PATH): a missing file is skipped silently
ConfigRead(f) == IF f.exists THEN f ELSE NoFile

\* config["USER"].get("version"): the section's own key, else the DEFAULT
\* section's key (configparser falls back to the defaults), else None
UserGet(cfg) == IF cfg.user # NoValue THEN cfg.user ELSE cfg.dflt

\* config.ini after the first part of load() (lines 152-160)
LoadFile(f) == IF f.exists THEN f ELSE DefaultFile

\* The name load() hands to TiaVersion[...], NoValue when a KeyError is raised
\* before the lookup (no USER section, or no version key at all)
LoadName(f) ==
    LET cfg == ConfigRead(LoadFile(f))
    IN  IF ~cfg.hasUser THEN NoValue
        ELSE IF UserGet(cfg) = NoValue THEN cfg.dflt
        ELSE UserGet(cfg)

LoadRaises_Substitute(f) == FALSE

\* load() raises KeyError
LoadRaises(f) == LoadName(f) \notin TiaVersionNames

\* VERSION after load()
LoadVersion(f, old) == IF LoadRaises(f) THEN old ELSE LoadName(f)

\* set_version() raises KeyError at config["USER"]
SetVersionRaises(f) == ~ConfigRead(f).hasUser

SetVersionFile_Both(f, v) ==
    IF SetVersionRaises(f) THEN f
    ELSE [exists |-> TRUE, hasUser |-> TRUE, dflt |-> v, user |-> v]

\* config.ini after set_version(v)
SetVersionFile(f, v) ==
    IF SetVersionRaises(f) THEN f
    ELSE [exists |-> TRUE, hasUser |-> TRUE, dflt |-> ConfigRead(f).dflt, user |-> v]

\* load()
DoLoad ==
    /\ file' = LoadFile(file)
    /\ dirExists' = TRUE
    /\ VERSION' = LoadVersion(file, VERSION)
    /\ lastOp' = [op |-> "load", arg |-> NoValue, raised |-> LoadRaises(file)]
    /\ prevOp' = lastOp
    /\ prevFile' = file
    /\ prevVERSION' = VERSION

\* set_version(v)
DoSetVersion(v) ==
    /\ file' = SetVersionFile(file, v)
    /\ lastOp' = [op |-> "set_version", arg |-> v, raised |-> SetVersionRaises(file)]
    /\ prevOp' = lastOp
    /\ prevFile' = file
    /\ prevVERSION' = VERSION
    /\ UNCHANGED <<dirExists, VERSION>>

InitCfg ==
    /\ file \in Files
    /\ dirExists \in BOOLEAN
    /\ (file.exists => dirExists)
    /\ VERSION = "V19"
    /\ lastOp = NoOp
    /\ prevOp = NoOp
    /\ prevFile = file
    /\ prevVERSION = VERSION

----------------------------------------------------------------------------
\* tia_portal/config.py, detect_wsl()

\* What open(...).read() gives for a pseudo-file: it cannot be read, or its
\* text has no marker, the marker in lower case, or the marker capitalised
FileTexts == {"unreadable", "plain", "microsoft", "Microsoft"}

\* os.environ.get("WSL_DISTRO_NAME"): None, the empty string, or a name
EnvValues == {"unset", "empty", "Ubuntu"}

\* platform.system()
Systems == {"Linux", "Windows"}

\* The machines the process may run on; /proc/sys/kernel/osrelease is a file
\* of the Linux kernel and cannot be read where platform.system() is not Linux
Machines ==
    { m \in [procVersion : FileTexts, envVar : EnvValues,
             system : Systems, osrelease : FileTexts] :
        m.system # "Linux" => m.osrelease = "unreadable" }

\* f.read().lower()
Lower(text) == IF text = "Microsoft" THEN "microsoft" ELSE text

\* "microsoft" in f.read().lower(), FALSE when open() raised (lines 29-34, 42-47)
HasMarker(text) == text # "unreadable" /\ Lower(text) = "microsoft"

\* Method 1 (lines 29-34)
ProbeVersion(m) == HasMarker(m.procVersion)

\* Method 2 (lines 37-38): the value is truthy
ProbeEnv(m) == m.envVar \notin {"unset", "empty"}

\* Method 3 (lines 41-47)
ProbeRelease(m) == m.system = "Linux" /\ HasMarker(m.osrelease)

DetectWsl_StopOnError(m) ==
    IF m.procVersion = "unreadable" THEN FALSE
    ELSE ProbeVersion(m) \/ ProbeEnv(m) \/ ProbeRelease(m)

\* detect_wsl() (lines 22-49)
DetectWsl(m) ==
    IF ProbeVersion(m) THEN TRUE
    ELSE IF ProbeEnv(m) THEN TRUE
    ELSE IF ProbeRelease(m) THEN TRUE
    ELSE FALSE

\* The probes detect_wsl() consults, in order
ProbesConsulted(m) ==
    IF ProbeVersion(m) THEN <<"procVersion">>
    ELSE IF ProbeEnv(m) THEN <<"procVersion", "envVar">>
    ELSE IF m.system = "Linux" THEN <<"procVersion", "envVar", "osrelease">>
    ELSE <<"procVersion", "envVar">>

----------------------------------------------------------------------------
\* tia_portal/config.py, path helpers

\* The characters of the paths of the model: a drive letter, the colon, the
\* backslash, the slash and a whitespace character
Chars == {"C", ":", "\\", "/", " "}

Letters == {"C"}

Whitespace == {" "}

\* The strings of at most MaxPathLen characters
Paths == UNION { [1..n -> Chars] : n \in 0..MaxPathLen }

\* What the path translation utility prints when it succeeds
Stdouts == { <<"C", ":", "\\", " ">>, <<"\\", "\\", "C", " ">>,
             <<"/", "C", " ">>, <<" ", "C", ":", "/">>, <<>> }

\* subprocess.run(["wslpath", ...], check=True): the utility is missing, exits
\* non-zero, or prints a text
UtilityResults ==
    { [kind |-> "missing", stdout |-> <<>>], [kind |-> "nonzero", stdout |-> <<>>] }
    \cup { [kind |-> "ok", stdout |-> t] : t \in Stdouts }

IsWindowsPath_Never(p) == FALSE

\* re.match(r"^[A-Za-z]:\\", p)
IsWindowsPath(p) ==
    Len(p) >= 3 /\ p[1] \in Letters /\ p[2] = ":" /\ p[3] = "\\"

\* p.startswith("/")
IsLinuxPath(p) == Len(p) >= 1 /\ p[1] = "/"

RECURSIVE LStrip(_)
LStrip(t) == IF t # <<>> /\ Head(t) \in Whitespace THEN LStrip(Tail(t)) ELSE t

RECURSIVE RStrip(_)
RStrip(t) ==
    IF t # <<>> /\ t[Len(t)] \in Whitespace
      THEN RStrip(SubSeq(t, 1, Len(t) - 1))
      ELSE t

\* result.stdout.strip()
Strip(t) == RStrip(LStrip(t))

Convert_Propagates(p, u) ==
    IF u.kind = "ok"
      THEN [value |-> Strip(u.stdout), raised |-> FALSE, runs |-> 1, kind |-> u.kind]
      ELSE [value |-> <<>>, raised |-> TRUE, runs |-> 1, kind |-> u.kind]

\* The try statement of both helpers (lines 76-86, 105-115): the utility is
\* run once; its stripped output is returned, or the argument when it failed
Convert(p, u) ==
    IF u.kind = "ok"
      THEN [value |-> Strip(u.stdout), raised |-> FALSE, runs |-> 1, kind |-> u.kind]
      ELSE [value |-> p, raised |-> FALSE, runs |-> 1, kind |-> u.kind]

\* A return without a conversion
Unchanged(p) == [value |-> p, raised |-> FALSE, runs |-> 0, kind |-> "not_run"]

\* wsl_path_to_windows(linux_path) (lines 60-86)
WslPathToWindows(isWsl, p, u) ==
    IF ~isWsl THEN Unchanged(p)
    ELSE IF IsWindowsPath(p) THEN Unchanged(p)
    ELSE Convert(p, u)

\* windows_path_to_wsl(windows_path) (lines 89-115)
WindowsPathToWsl(isWsl, p, u) ==
    IF ~isWsl THEN Unchanged(p)
    ELSE IF IsLinuxPath(p) THEN Unchanged(p)
    ELSE Convert(p, u)

\* normalize_path(path) (lines 118-136)
NormalizePath(isWsl, p, u) ==
    IF p = <<>> THEN Unchanged(p)
    ELSE IF isWsl
      THEN IF IsWindowsPath(p) THEN Unchanged(p) ELSE WslPathToWindows(isWsl, p, u)
      ELSE Unchanged(p)

\* A machine without any sign of the compatibility layer
PlainLinux ==
    [procVersion |-> "plain", envVar |-> "unset", system |-> "Linux",
     osrelease |-> "plain"]

\* A machine of the compatibility layer
WslLinux ==
    [procVersion |-> "microsoft", envVar |-> "Ubuntu", system |-> "Linux",
     osrelease |-> "microsoft"]

\* No path helper has been called
NoPathCall ==
    /\ pathCalls = 0
    /\ pathFn = "none"
    /\ pathIn = <<>>
    /\ pathOut = <<>>
    /\ pathRaised = FALSE
    /\ utilityRuns = 0
    /\ utilityKind = "not_run"

\* The module before "IS_WSL = detect_wsl()" (line 52) ran
NotImported ==
    /\ IS_WSL = FALSE
    /\ detectCalls = 0
    /\ detected = FALSE
    /\ probes = <<>>

\* The module after line 52 ran on machine m
Imported(m) ==
    /\ machine = m
    /\ IS_WSL = DetectWsl(m)
    /\ detectCalls = 1
    /\ detected = DetectWsl(m)
    /\ probes = ProbesConsulted(m)

----------------------------------------------------------------------------
\* examples/read_blocks_wsl.py

\* What the operator types at the prompt: text int() rejects, or an integer
Inputs ==
    {[numeric |-> FALSE, value |-> 0]}
    \cup {[numeric |-> TRUE, value |-> n] : n \in (-1)..(MaxInstances + 2)}

SysExitArg_AttachZero(site) == IF site = "attach_error" THEN 0 ELSE 1

SysExitArg_AllOne(site) == 1

\* The argument of each sys.exit(...) call of the script
SysExitArg(site) ==
    CASE site = "config_error"      -> 1
      [] site = "no_instances"      -> 1
      [] site = "invalid_selection" -> 1
      [] site = "attach_error"      -> 1
      [] site = "no_project"        -> 1
      [] site = "no_plcs"           -> 0

NoInstances_Never(n) == FALSE

\* "if not tia_processes" (line 121)
NoInstances(n) == n = 0

SelectionInvalid_UpperOnly(selection, n) == selection > n

\* "if selection < 1 or selection > len(tia_processes)" (line 143)
SelectionInvalid(selection, n) == selection < 1 \/ selection > n

\* tia_processes[selection - 1], as a 1-based position
SelectedIndex(selection) == (selection - 1) + 1

\* The exit code of a process whose main() returned
ReturnCode(pending) == IF pending = -1 THEN 0 ELSE pending

InitRun ==
    /\ pc = "load"
    /\ argVersion \in ArgVersions
    /\ argDebug \in BOOLEAN
    /\ tia_processes = -1
    /\ typed = <<>>
    /\ selected_process = 0
    /\ attachCalls = <<>>
    /\ attached = FALSE
    /\ projectHandles = 0
    /\ plcs = 0
    /\ plcIdx = 0
    /\ blockCounts = <<>>
    /\ blockIdx = 0
    /\ export_path = FALSE
    /\ successful_exports = 0
    /\ exportLog = <<>>
    /\ compileCalls = 0
    /\ finishedLoops = 0
    /\ reported = <<>>
    /\ caught = FALSE
    /\ tracePrinted = FALSE
    /\ pendingExit = -1
    /\ leftRunning = 0
    /\ exitCode = -1
    /\ calls = <<>>

\* The script is run on a machine without the compatibility layer
Init == InitCfg /\ InitRun /\ Imported(PlainLinux) /\ NoPathCall

\* sys.exit(code) outside the outer try (lines 113, 122): the process ends
ExitNow(code) ==
    /\ pc' = "done"
    /\ exitCode' = code

ExitInTry_NoFinally(code) ==
    /\ pc' = "done"
    /\ pendingExit' = code

\* sys.exit(code) inside the outer try: SystemExit is no Exception, the
\* handler of line 245 lets it pass and the finally clause runs
ExitInTry(code) ==
    /\ pc' = "finally"
    /\ pendingExit' = code

Raise_NextPlc == pc' = "get_software"

\* An Exception raised inside the outer try: the handler of line 245 runs
Raise == pc' = "caught"

LoopHead_Reattach == "attach"

\* The first statement of the body of "for plc in plcs" (lines 204-208)
LoopHead == "get_software"

AfterBlocksListed_NoCompile == "export_loop"

\* The statement after software.get_all_blocks(True) returned (lines 215-217)
AfterBlocksListed == "compile"

\* tia_config.load() (line 105)
MainLoad ==
    /\ pc = "load"
    /\ DoLoad
    /\ IF LoadRaises(file)
         THEN ExitNow(SysExitArg("config_error"))
         ELSE /\ pc' = IF argVersion # NoValue THEN "set_version" ELSE "discover"
              /\ UNCHANGED exitCode
    /\ UNCHANGED <<argVersion, argDebug, tia_processes, typed, selected_process,
                   attachCalls, attached, projectHandles, plcs, plcIdx,
                   blockCounts, blockIdx, export_path, successful_exports,
                   exportLog, compileCalls, finishedLoops, reported, caught,
                   tracePrinted, pendingExit, leftRunning>>
    /\ UNCHANGED calls
    /\ UNCHANGED envVars

\* tia_config.set_version(TiaVersion[args.version]) (lines 108-110)
MainSetVersion ==
    /\ pc = "set_version"
    /\ DoSetVersion(argVersion)
    /\ IF SetVersionRaises(file)
         THEN ExitNow(SysExitArg("config_error"))
         ELSE /\ pc' = "discover"
              /\ UNCHANGED exitCode
    /\ UNCHANGED <<argVersion, argDebug, tia_processes, typed, selected_process,
                   attachCalls, attached, projectHandles, plcs, plcIdx,
                   blockCounts, blockIdx, export_path, successful_exports,
                   exportLog, compileCalls, finishedLoops, reported, caught,
                   tracePrinted, pendingExit, leftRunning>>
    /\ UNCHANGED calls
    /\ UNCHANGED envVars

\* get_active_tia_portal_instances() and the check of its result (lines 120-122)
Discover ==
    /\ pc = "discover"
    /\ \E raised \in BOOLEAN, k \in 0..MaxInstances :
         LET found == IF raised THEN 0 ELSE k
         IN  /\ tia_processes' = found
             /\ calls' = Append(calls, [op |-> "GetProcesses", ok |-> ~raised])
             /\ IF NoInstances(found)
                  THEN ExitNow(SysExitArg("no_instances"))
                  ELSE /\ pc' = "select"
                       /\ UNCHANGED exitCode
    /\ UNCHANGED cfgVars
    /\ UNCHANGED <<argVersion, argDebug, typed, selected_process,
                   attachCalls, attached, projectHandles, plcs, plcIdx,
                   blockCounts, blockIdx, export_path, successful_exports,
                   exportLog, compileCalls, finishedLoops, reported, caught,
                   tracePrinted, pendingExit, leftRunning>>
    /\ UNCHANGED envVars

\* The choice of the instance (lines 130-149)
Select ==
    /\ pc = "select"
    /\ IF tia_processes > 1
         THEN \E inp \in Inputs :
                /\ typed' = Append(typed, inp)
                /\ IF ~inp.numeric
                     THEN Raise /\ UNCHANGED <<selected_process, pendingExit>>
                     ELSE IF SelectionInvalid(inp.value, tia_processes)
                       THEN /\ ExitInTry(SysExitArg("invalid_selection"))
                            /\ UNCHANGED selected_process
                       ELSE /\ selected_process' = SelectedIndex(inp.value)
                            /\ pc' = "attach"
                            /\ UNCHANGED pendingExit
         ELSE /\ UNCHANGED typed
              /\ IF tia_processes = 0
                   THEN Raise /\ UNCHANGED <<selected_process, pendingExit>>
                   ELSE /\ selected_process' = 1
                        /\ pc' = "attach"
                        /\ UNCHANGED pendingExit
    /\ UNCHANGED cfgVars
    /\ UNCHANGED <<argVersion, argDebug, tia_processes, attachCalls, attached,
                   projectHandles, plcs, plcIdx, blockCounts, blockIdx,
                   export_path, successful_exports, exportLog, compileCalls,
                   finishedLoops, reported, caught, tracePrinted, leftRunning,
                   exitCode>>
    /\ UNCHANGED calls
    /\ UNCHANGED envVars

\* selected_process.Attach() and its handler (lines 154-165)
Attach ==
    /\ pc = "attach"
    /\ attachCalls' = Append(attachCalls, selected_process)
    /\ \E ok \in BOOLEAN :
         /\ calls' = Append(calls, [op |-> "Attach", ok |-> ok])
         /\ IF ok
           THEN /\ attached' = TRUE
                /\ pc' = "check_project"
                /\ UNCHANGED pendingExit
           ELSE /\ ExitInTry(SysExitArg("attach_error"))
                /\ UNCHANGED attached
    /\ UNCHANGED cfgVars
    /\ UNCHANGED <<argVersion, argDebug, tia_processes, typed, selected_process,
                   projectHandles, plcs, plcIdx, blockCounts, blockIdx,
                   export_path, successful_exports, exportLog, compileCalls,
                   finishedLoops, reported, caught, tracePrinted, leftRunning,
                   exitCode>>
    /\ UNCHANGED envVars

\* "if not selected_process.ProjectPath" (lines 172-175)
CheckProject ==
    /\ pc = "check_project"
    /\ \E ProjectPath \in BOOLEAN :
         /\ calls' = Append(calls, [op |-> "ProjectPath", ok |-> ProjectPath])
         /\ IF ~ProjectPath
           THEN ExitInTry(SysExitArg("no_project"))
           ELSE pc' = "get_project" /\ UNCHANGED pendingExit
    /\ UNCHANGED cfgVars
    /\ UNCHANGED <<argVersion, argDebug, tia_processes, typed, selected_process,
                   attachCalls, attached, projectHandles, plcs, plcIdx,
                   blockCounts, blockIdx, export_path, successful_exports,
                   exportLog, compileCalls, finishedLoops, reported, caught,
                   tracePrinted, leftRunning, exitCode>>
    /\ UNCHANGED envVars

\* tia_portal.Projects[0] and Project(...) (lines 182-191)
GetProject ==
    /\ pc = "get_project"
    /\ \E ok \in BOOLEAN :
         /\ calls' = Append(calls, [op |-> "Projects", ok |-> ok])
         /\ IF ok
           THEN /\ projectHandles' = projectHandles + 1
                /\ pc' = "get_plcs"
           ELSE Raise /\ UNCHANGED projectHandles
    /\ UNCHANGED cfgVars
    /\ UNCHANGED <<argVersion, argDebug, tia_processes, typed, selected_process,
                   attachCalls, attached, plcs, plcIdx, blockCounts, blockIdx,
                   export_path, successful_exports, exportLog, compileCalls,
                   finishedLoops, reported, caught, tracePrinted, pendingExit,
                   leftRunning, exitCode>>
    /\ UNCHANGED envVars

\* tia_client.project.get_plcs() and the empty check (lines 196-201)
GetPlcs ==
    /\ pc = "get_plcs"
    /\ \E ok \in BOOLEAN, n \in 0..MaxPLCs :
         /\ calls' = Append(calls, [op |-> "get_plcs", ok |-> ok])
         /\ IF ~ok
           THEN Raise /\ UNCHANGED <<plcs, plcIdx, pendingExit>>
           ELSE /\ plcs' = n
                /\ IF n = 0
                     THEN ExitInTry(SysExitArg("no_plcs")) /\ UNCHANGED plcIdx
                     ELSE /\ plcIdx' = 1
                          /\ pc' = LoopHead
                          /\ UNCHANGED pendingExit
    /\ UNCHANGED cfgVars
    /\ UNCHANGED <<argVersion, argDebug, tia_processes, typed, selected_process,
                   attachCalls, attached, projectHandles, blockCounts, blockIdx,
                   export_path, successful_exports, exportLog, compileCalls,
                   finishedLoops, reported, caught, tracePrinted, leftRunning,
                   exitCode>>
    /\ UNCHANGED envVars

\* plc.get_software() (line 208)
GetSoftware ==
    /\ pc = "get_software"
    /\ \E ok \in BOOLEAN :
         /\ calls' = Append(calls, [op |-> "get_software", ok |-> ok])
         /\ IF ok THEN pc' = "get_all_blocks" ELSE Raise
    /\ UNCHANGED cfgVars
    /\ UNCHANGED <<argVersion, argDebug, tia_processes, typed, selected_process,
                   attachCalls, attached, projectHandles, plcs, plcIdx,
                   blockCounts, blockIdx, export_path, successful_exports,
                   exportLog, compileCalls, finishedLoops, reported, caught,
                   tracePrinted, pendingExit, leftRunning, exitCode>>
    /\ UNCHANGED envVars

\* software.get_all_blocks(True) (line 212)
GetAllBlocks ==
    /\ pc = "get_all_blocks"
    /\ \E ok \in BOOLEAN, n \in 0..MaxBlocks :
         /\ calls' = Append(calls, [op |-> "get_all_blocks", ok |-> ok])
         /\ IF ok
           THEN /\ blockCounts' = Append(blockCounts, n)
                /\ pc' = AfterBlocksListed
           ELSE Raise /\ UNCHANGED blockCounts
    /\ UNCHANGED cfgVars
    /\ UNCHANGED <<argVersion, argDebug, tia_processes, typed, selected_process,
                   attachCalls, attached, projectHandles, plcs, plcIdx, blockIdx,
                   export_path, successful_exports, exportLog, compileCalls,
                   finishedLoops, reported, caught, tracePrinted, pendingExit,
                   leftRunning, exitCode>>
    /\ UNCHANGED envVars

\* tia_client.project.compile() and the reset of the loop's locals (lines 217-223)
Compile ==
    /\ pc = "compile"
    /\ compileCalls' = compileCalls + 1
    /\ \E ok \in BOOLEAN :
         /\ calls' = Append(calls, [op |-> "compile", ok |-> ok])
         /\ IF ok
           THEN /\ export_path' = FALSE
                /\ successful_exports' = 0
                /\ blockIdx' = 0
                /\ pc' = "export_loop"
           ELSE Raise /\ UNCHANGED <<export_path, successful_exports, blockIdx>>
    /\ UNCHANGED cfgVars
    /\ UNCHANGED <<argVersion, argDebug, tia_processes, typed, selected_process,
                   attachCalls, attached, projectHandles, plcs, plcIdx,
                   blockCounts, exportLog, finishedLoops, reported, caught,
                   tracePrinted, pendingExit, leftRunning, exitCode>>
    /\ UNCHANGED envVars

\* len(software_blocks) of the PLC being processed
TotalBlocks == blockCounts[Len(blockCounts)]

NextBlock_Break(ok, i, n) == IF ok THEN i + 1 ELSE n

\* The position of the for loop after the body ran for block i + 1 of n:
\* "continue" in the handler goes on with the next block
NextBlock(ok, i, n) == i + 1

\* The outcomes of block.export(): it returns the path of the exported file
\* (TRUE) or raises (FALSE)
BlockExportOutcomes == BOOLEAN

\* export_path after one block.export() (line 232): the returned path, or the
\* old value when the call raised
ExportedPath(ok, old) == IF ok THEN TRUE ELSE old

\* successful_exports after one block.export() (lines 232-233)
CountExport(ok, count) == IF ok THEN count + 1 ELSE count

\* One iteration of the export loop (lines 225-236)
ExportBlock ==
    /\ pc = "export_loop"
    /\ blockIdx < TotalBlocks
    /\ \E ok \in BlockExportOutcomes :
         /\ calls' = Append(calls, [op |-> "export", ok |-> ok])
         /\ exportLog' = Append(exportLog,
                            [plc |-> plcIdx, block |-> blockIdx + 1, ok |-> ok])
         /\ export_path' = ExportedPath(ok, export_path)
         /\ successful_exports' = CountExport(ok, successful_exports)
         /\ blockIdx' = NextBlock(ok, blockIdx, TotalBlocks)
    /\ UNCHANGED cfgVars
    /\ UNCHANGED <<pc, argVersion, argDebug, tia_processes, typed,
                   selected_process, attachCalls, attached, projectHandles, plcs,
                   plcIdx, blockCounts, compileCalls, finishedLoops, reported,
                   caught, tracePrinted, pendingExit, leftRunning, exitCode>>
    /\ UNCHANGED envVars

\* The end of the export loop, the summary and the step to the next PLC
\* (lines 238-243, 204)
EndExportLoop ==
    /\ pc = "export_loop"
    /\ blockIdx >= TotalBlocks
    /\ finishedLoops' = finishedLoops + 1
    /\ reported' = IF export_path
                     THEN Append(reported, [plc |-> plcIdx,
                                            count |-> successful_exports,
                                            total |-> TotalBlocks])
                     ELSE reported
    /\ IF plcIdx < plcs
         THEN plcIdx' = plcIdx + 1 /\ pc' = LoopHead
         ELSE pc' = "finally" /\ UNCHANGED plcIdx
    /\ UNCHANGED cfgVars
    /\ UNCHANGED <<argVersion, argDebug, tia_processes, typed, selected_process,
                   attachCalls, attached, projectHandles, plcs, blockCounts,
                   blockIdx, export_path, successful_exports, exportLog,
                   compileCalls, caught, tracePrinted, pendingExit, leftRunning,
                   exitCode>>
    /\ UNCHANGED calls
    /\ UNCHANGED envVars

\* "except Exception as e" (lines 245-250)
Caught ==
    /\ pc = "caught"
    /\ caught' = TRUE
    /\ tracePrinted' = argDebug
    /\ pc' = "finally"
    /\ UNCHANGED cfgVars
    /\ UNCHANGED <<argVersion, argDebug, tia_processes, typed, selected_process,
                   attachCalls, attached, projectHandles, plcs, plcIdx,
                   blockCounts, blockIdx, export_path, successful_exports,
                   exportLog, compileCalls, finishedLoops, reported, pendingExit,
                   leftRunning, exitCode>>
    /\ UNCHANGED calls
    /\ UNCHANGED envVars

\* "finally" (lines 251-252), then main() returns or SystemExit ends the process
Finally ==
    /\ pc = "finally"
    /\ leftRunning' = leftRunning + 1
    /\ pc' = "done"
    /\ exitCode' = ReturnCode(pendingExit)
    /\ UNCHANGED cfgVars
    /\ UNCHANGED <<argVersion, argDebug, tia_processes, typed, selected_process,
                   attachCalls, attached, projectHandles, plcs, plcIdx,
                   blockCounts, blockIdx, export_path, successful_exports,
                   exportLog, compileCalls, finishedLoops, reported, caught,
                   tracePrinted, pendingExit>>
    /\ UNCHANGED calls
    /\ UNCHANGED envVars

Next ==
    \/ MainLoad
    \/ MainSetVersion
    \/ Discover
    \/ Select
    \/ Attach
    \/ CheckProject
    \/ GetProject
    \/ GetPlcs
    \/ GetSoftware
    \/ GetAllBlocks
    \/ Compile
    \/ ExportBlock
    \/ EndExportLoop
    \/ Caught
    \/ Finally

\* One run of the entry script
Spec == Init /\ [][Next]_vars

\* The entry script is run for the first time on a machine: no config.ini
\* has been written yet, so load() writes the default file (lines 155-162)
InitFirstRun == Init /\ file = NoFile

\* One first run of the entry script
SpecFirstRun == InitFirstRun /\ [][Next]_vars

----------------------------------------------------------------------------
\* The configuration store used as a library: load() and set_version(v)
\* called in any order by one process

LibLoad == DoLoad /\ UNCHANGED <<runVars, envVars>>

LibSetVersion ==
    (\E v \in TiaVersionNames : DoSetVersion(v)) /\ UNCHANGED <<runVars, envVars>>

NextConfig == LibLoad \/ LibSetVersion

SpecConfig == Init /\ [][NextConfig]_vars

----------------------------------------------------------------------------
\* detect_wsl() at the import of tia_portal.config and called again later

\* The state in which nothing of the configuration store or the script ran
Idle ==
    /\ InitCfg
    /\ InitRun
    /\ file = NoFile
    /\ ~dirExists
    /\ argVersion = NoValue
    /\ ~argDebug

InitDetect == Idle /\ machine \in Machines /\ NotImported /\ NoPathCall

\* IS_WSL = detect_wsl() (line 52)
ImportConfig ==
    /\ detectCalls = 0
    /\ IS_WSL' = DetectWsl(machine)
    /\ detected' = DetectWsl(machine)
    /\ probes' = ProbesConsulted(machine)
    /\ detectCalls' = 1
    /\ UNCHANGED <<machine, pathCalls, pathFn, pathIn, pathOut, pathRaised,
                   utilityRuns, utilityKind>>
    /\ UNCHANGED <<cfgVars, runVars>>

\* A later call of detect_wsl()
CallDetectWsl ==
    /\ detectCalls >= 1
    /\ detectCalls < MaxDetectCalls
    /\ detected' = DetectWsl(machine)
    /\ probes' = ProbesConsulted(machine)
    /\ detectCalls' = detectCalls + 1
    /\ UNCHANGED <<machine, IS_WSL, pathCalls, pathFn, pathIn, pathOut,
                   pathRaised, utilityRuns, utilityKind>>
    /\ UNCHANGED <<cfgVars, runVars>>

NextDetect == ImportConfig \/ CallDetectWsl

SpecDetect == InitDetect /\ [][NextDetect]_vars

----------------------------------------------------------------------------
\* The path helpers called by a process that imported tia_portal.config

InitPaths ==
    /\ Idle
    /\ \E m \in {PlainLinux, WslLinux} : Imported(m)
    /\ NoPathCall

\* One call of a path helper: fn names it, r is what it returns
PathCall(fn, p, r) ==
    /\ pathCalls' = pathCalls + 1
    /\ pathFn' = fn
    /\ pathIn' = p
    /\ pathOut' = r.value
    /\ pathRaised' = r.raised
    /\ utilityRuns' = r.runs
    /\ utilityKind' = r.kind
    /\ UNCHANGED <<machine, IS_WSL, detectCalls, detected, probes>>
    /\ UNCHANGED <<cfgVars, runVars>>

CallWslPathToWindows ==
    /\ pathCalls = 0
    /\ \E p \in Paths, u \in UtilityResults :
         PathCall("wsl_path_to_windows", p, WslPathToWindows(IS_WSL, p, u))

CallWindowsPathToWsl ==
    /\ pathCalls = 0
    /\ \E p \in Paths, u \in UtilityResults :
         PathCall("windows_path_to_wsl", p, WindowsPathToWsl(IS_WSL, p, u))

CallNormalizePath ==
    /\ pathCalls = 0
    /\ \E p \in Paths, u \in UtilityResults :
         PathCall("normalize_path", p, NormalizePath(IS_WSL, p, u))

\* wsl_path_to_windows applied to what wsl_path_to_windows returned
CallWslPathToWindowsAgain ==
    /\ pathCalls = 1
    /\ pathFn = "wsl_path_to_windows"
    /\ ~pathRaised
    /\ \E u \in UtilityResults :
         PathCall("wsl_path_to_windows", pathOut,
                  WslPathToWindows(IS_WSL, pathOut, u))

NextPaths ==
    \/ CallWslPathToWindows
    \/ CallWindowsPathToWsl
    \/ CallNormalizePath
    \/ CallWslPathToWindowsAgain

SpecPaths == InitPaths /\ [][NextPaths]_vars

----------------------------------------------------------------------------
\* Properties

\* The export() calls made for PLC p, in call order
LogOf(p) == SelectSeq(exportLog, LAMBDA e : e.plc = p)

\* The positions of LogOf(p) whose export raised
FailedIn(p) == LET log == LogOf(p) IN {i \in 1..Len(log) : ~log[i].ok}

\* The summary lines printed for PLC p
ReportsOf(p) == SelectSeq(reported, LAMBDA r : r.plc = p)

\* The configuration step (lines 104-113) ended without an error
ConfigDone == pc = "discover" \/ tia_processes >= 0

\* C1: for every PLC whose export loop has ended, export was called on each
\* of its N blocks, in order 1..N, whatever calls failed; when the failed
\* calls F are fewer than N, the one summary line of that PLC gives
\* N - |F| of N; and a run whose loops all ended returns normally (no
\* handler ran, exit code 0).
C1_PartialFailureContinues ==
    /\ \A p \in 1..finishedLoops :
         LET log == LogOf(p)
             failures == Cardinality(FailedIn(p))
             reports == ReportsOf(p)
         IN  /\ Len(log) = blockCounts[p]
             /\ \A i \in 1..Len(log) : log[i].block = i
             /\ failures < blockCounts[p] =>
                  /\ Len(reports) = 1
                  /\ reports[1].total = blockCounts[p]
                  /\ reports[1].count = blockCounts[p] - failures
    /\ (pc = "done" /\ plcs > 0 /\ finishedLoops = plcs) =>
            (exitCode = 0 /\ ~caught)

\* C1 witness: a finished run in which the first of two blocks of a PLC
\* failed and the second was exported
C1_Witness ==
    /\ pc = "done"
    /\ exitCode = 0
    /\ \E p \in 1..finishedLoops :
         /\ blockCounts[p] = 2
         /\ Len(LogOf(p)) = 2
         /\ ~LogOf(p)[1].ok
         /\ LogOf(p)[2].ok

\* C2: a finished run has exit code 0 exactly when every PLC's export loop
\* ran to its end or the project had zero PLCs; every other finished run
\* has exit code 1.
C2_ExitZeroOnlyOnSuccess ==
    pc = "done" =>
        /\ exitCode \in {0, 1}
        /\ exitCode = 0 <=>
             \/ (plcs > 0 /\ finishedLoops = plcs)
             \/ (attached /\ projectHandles = 1 /\ plcs = 0 /\ pendingExit = 0)

\* C3 as stated: an empty discovery ends the run with exit code 0, without
\* an exception and without an attachment.
C3_EmptyDiscoveryExitsZero ==
    (pc = "done" /\ tia_processes = 0) =>
        (exitCode = 0 /\ ~caught /\ attachCalls = <<>>)

\* C3 amended: an empty discovery ends the run at once with exit code 1;
\* no exception handler runs and Attach is never called.
C3_EmptyDiscoveryExitsOne ==
    tia_processes = 0 =>
        /\ pc = "done"
        /\ exitCode = 1
        /\ ~caught
        /\ attachCalls = <<>>
        /\ selected_process = 0

\* C3 witness: the configuration step succeeded and the discovery was empty
C3_Witness == tia_processes = 0 /\ ~lastOp.raised /\ pc = "done"

\* C4: after set_version(X) followed by load(), VERSION is X.
C4_SetThenLoadYieldsX ==
    (lastOp.op = "load" /\ prevOp.op = "set_version") => VERSION = prevOp.arg

\* C5: once the configuration step of a run started with --version X has
\* succeeded, VERSION is X.
C5_VersionFlagInEffect ==
    (argVersion # NoValue /\ ConfigDone) => VERSION = argVersion

\* C6: a run in which the operator typed non-numeric text ends with exit
\* code 1, after one prompt and without a call of Attach.
C6_NonNumericIsFatal ==
    (pc = "done" /\ typed # <<>> /\ ~typed[1].numeric) =>
        (exitCode = 1 /\ Len(typed) = 1 /\ attachCalls = <<>>)

\* C7: with K > 1 instances, an integer outside 1..K stops the run after one
\* prompt with exit code 1 and without a call of Attach; an integer s in
\* 1..K selects the s-th instance, the only one Attach is called on.
C7_SelectionRange ==
    (typed # <<>> /\ typed[1].numeric) =>
        /\ tia_processes > 1
        /\ Len(typed) = 1
        /\ IF typed[1].value < 1 \/ typed[1].value > tia_processes
             THEN /\ pc \in {"finally", "done"}
                  /\ pc = "done" => exitCode = 1
                  /\ selected_process = 0
                  /\ attachCalls = <<>>
                  /\ ~caught
             ELSE /\ selected_process = typed[1].value
                  /\ \A i \in 1..Len(attachCalls) : attachCalls[i] = typed[1].value

\* C7 witness: the operator chose instance 3 of 2 and the run has ended
C7_Witness ==
    /\ pc = "done"
    /\ tia_processes = 2
    /\ typed = <<[numeric |-> TRUE, value |-> 3]>>
    /\ exitCode = 1

\* The version name the claims call effective: USER.version when present,
\* otherwise DEFAULT.version
EffectiveName(f) == IF f.user # NoValue THEN f.user ELSE f.dflt

\* C8: when the effective stored version name is no supported name, load()
\* raises, VERSION stays what it was, and the run is over with exit code 1
\* before any discovery or attachment.
C8_UnknownVersionIsFatal ==
    (lastOp.op = "load" /\ prevFile.exists
       /\ EffectiveName(prevFile) \notin TiaVersionNames) =>
        /\ lastOp.raised
        /\ VERSION = prevVERSION
        /\ file = prevFile
        /\ pc = "done"
        /\ exitCode = 1
        /\ tia_processes = -1
        /\ attachCalls = <<>>

\* C8 witness: load() met a USER.version that is no member and raised
C8_Witness ==
    /\ lastOp.op = "load"
    /\ lastOp.raised
    /\ prevFile.hasUser
    /\ prevFile.user \in UnknownNames
    /\ exitCode = 1

C10_SetVersionFrame ==
    lastOp.op = "set_version" =>
        /\ file.dflt = prevFile.dflt
        /\ file.exists = prevFile.exists
        /\ file.hasUser = prevFile.hasUser
        /\ VERSION = prevVERSION
        /\ IF lastOp.raised THEN file = prevFile ELSE file.user = lastOp.arg
        /\ (prevOp.op = "set_version" /\ prevOp.arg = lastOp.arg) => file = prevFile

\* C10 witness: two set_version calls with different values on a file whose
\* DEFAULT.version is a third value
C10_Witness ==
    /\ lastOp.op = "set_version"
    /\ prevOp.op = "set_version"
    /\ ~lastOp.raised
    /\ prevOp.arg # lastOp.arg
    /\ prevFile.user = prevOp.arg
    /\ file.dflt \notin {NoValue, lastOp.arg, prevOp.arg}

\* The last call made to the vendor API
LastCall == calls[Len(calls)]

\* The number of calls of op made so far
CountCalls(op) == Cardinality({i \in 1..Len(calls) : calls[i].op = op})

\* C11: a failed Attach is the last vendor call of the run: no session, no
\* project handle, no compile and no export follow; the outer handler does
\* not run and the run ends with exit code 1.
C11_AttachFailureIsFatal ==
    \A i \in 1..Len(calls) :
        (calls[i].op = "Attach" /\ ~calls[i].ok) =>
            /\ i = Len(calls)
            /\ pc \in {"finally", "done"}
            /\ ~attached
            /\ projectHandles = 0
            /\ compileCalls = 0
            /\ exportLog = <<>>
            /\ ~caught
            /\ pc = "done" => exitCode = 1

\* C11 witness: a run that ended after Attach raised
C11_Witness ==
    /\ pc = "done"
    /\ calls # <<>>
    /\ LastCall = [op |-> "Attach", ok |-> FALSE]
    /\ exitCode = 1

\* C12: get_plcs() returning zero PLCs is the last vendor call of a run that
\* ends with exit code 0 without compile or export; an instance without an
\* open project ends the run with exit code 1 before any project handle,
\* PLC enumeration, compile or export.
C12_NothingToExport ==
    \A i \in 1..Len(calls) :
        /\ (calls[i] = [op |-> "get_plcs", ok |-> TRUE] /\ plcs = 0) =>
              /\ i = Len(calls)
              /\ pc \in {"finally", "done"}
              /\ compileCalls = 0
              /\ exportLog = <<>>
              /\ ~caught
              /\ pc = "done" => exitCode = 0
        /\ calls[i] = [op |-> "ProjectPath", ok |-> FALSE] =>
              /\ i = Len(calls)
              /\ pc \in {"finally", "done"}
              /\ projectHandles = 0
              /\ CountCalls("get_plcs") = 0
              /\ compileCalls = 0
              /\ exportLog = <<>>
              /\ ~caught
              /\ pc = "done" => exitCode = 1

\* C12 witness: a run that ended after get_plcs() returned no PLC
C12_Witness ==
    /\ pc = "done"
    /\ calls # <<>>
    /\ LastCall = [op |-> "get_plcs", ok |-> TRUE]
    /\ plcs = 0
    /\ exitCode = 0

\* C13: Attach is called at most once, on the selected instance, and at most
\* one project handle is created, after the attachment.
C13_OneSessionOneProject ==
    /\ Len(attachCalls) <= 1
    /\ CountCalls("Attach") = Len(attachCalls)
    /\ \A i \in 1..Len(attachCalls) : attachCalls[i] = selected_process
    /\ projectHandles <= 1
    /\ CountCalls("Projects") <= 1
    /\ projectHandles = 1 => attached

\* C13 witness: a finished run over two instances and two PLCs, with a
\* failed export, that attached once and created one project handle
C13_Witness ==
    /\ pc = "done"
    /\ tia_processes = 2
    /\ plcs = 2
    /\ finishedLoops = 2
    /\ \E i \in 1..Len(exportLog) : ~exportLog[i].ok
    /\ Len(attachCalls) = 1
    /\ projectHandles = 1

\* The operations of the vendor API the script uses
VendorOps == {"GetProcesses", "Attach", "ProjectPath", "Projects", "get_plcs",
              "get_software", "get_all_blocks", "compile", "export"}

\* C14: a run that entered the connect-and-process phase ends by running the
\* finally clause exactly once, as its last step, whatever happened before
\* (with the traceback printed only for a caught exception under --debug);
\* the process then ends with an exit code; no call closes the session.
C14_LeftRunningOnce ==
    /\ leftRunning <= 1
    /\ leftRunning = 1 => pc = "done"
    /\ pc = "done" => (leftRunning = 1 <=> tia_processes > 0)
    /\ pc = "done" => exitCode \in {0, 1}
    /\ tracePrinted <=> (caught /\ argDebug)
    /\ \A i \in 1..Len(calls) : calls[i].op \in VendorOps

\* C14 witness: a run under --debug that ended after the handler caught an
\* exception raised by compile()
C14_Witness ==
    /\ pc = "done"
    /\ caught
    /\ tracePrinted
    /\ leftRunning = 1
    /\ calls # <<>>
    /\ LastCall = [op |-> "compile", ok |-> FALSE]

\* The number of successful calls of op made so far
CountOk(op) == Cardinality({i \in 1..Len(calls) : calls[i].op = op /\ calls[i].ok})

\* C18: for each PLC the calls are get_software, get_all_blocks, one
\* compile, then the exports: every vendor call of the loop directly follows
\* the call the order names, an export is made only after the compile of its
\* PLC returned, compile is called at most once per PLC started, and in a
\* run whose loops all ended the number of compile calls is the number of
\* PLCs.
C18_PerPlcCallOrder ==
    LET n == Len(calls)
        okCompiles == CountOk("compile")
        softwares == CountCalls("get_software")
    IN  /\ \A i \in 1..n :
             LET op == calls[i].op
                 prev == calls[i-1]
             IN  /\ op = "get_software" =>
                      /\ i > 1
                      /\ \/ prev.op \in {"get_plcs", "compile"} /\ prev.ok
                         \/ prev.op = "export"
                 /\ op = "get_all_blocks" =>
                      (i > 1 /\ prev.op = "get_software" /\ prev.ok)
                 /\ op = "compile" =>
                      (i > 1 /\ prev.op = "get_all_blocks" /\ prev.ok)
                 /\ op = "export" =>
                      /\ i > 1
                      /\ \/ prev.op = "compile" /\ prev.ok
                         \/ prev.op = "export"
        /\ \A j \in 1..Len(exportLog) : okCompiles >= exportLog[j].plc
        /\ CountCalls("compile") = compileCalls
        /\ softwares <= plcIdx
        /\ compileCalls <= softwares
        /\ CountCalls("export") = Len(exportLog)
        /\ (pc = "done" /\ plcs > 0 /\ finishedLoops = plcs) => compileCalls = plcs

\* C18 witness: a finished run over two PLCs, each with an exported block
C18_Witness ==
    /\ pc = "done"
    /\ plcs = 2
    /\ finishedLoops = 2
    /\ compileCalls = 2
    /\ \E j \in 1..Len(exportLog) : exportLog[j].plc = 1
    /\ \E j \in 1..Len(exportLog) : exportLog[j].plc = 2

\* C19: every PLC whose export loop has ended has one summary line, giving
\* the number of its successful exports out of its number of blocks, also
\* when every export failed or the PLC has no block.
C19_SummaryForEveryPlc ==
    \A p \in 1..finishedLoops :
        LET reports == ReportsOf(p)
        IN  /\ Len(reports) = 1
            /\ reports[1].total = blockCounts[p]
            /\ reports[1].count = blockCounts[p] - Cardinality(FailedIn(p))

\* C20: a failed get_software, get_all_blocks or compile is the last vendor
\* call of the run: the PLC it was made for and the PLCs after it get no
\* export, and the exports and summaries of the PLCs before it stay as they
\* were.
C20_PlcFailureEndsRun ==
    \A i \in 1..Len(calls) :
        (calls[i].op \in {"get_software", "get_all_blocks", "compile"}
           /\ ~calls[i].ok) =>
            /\ i = Len(calls)
            /\ pc \in {"caught", "finally", "done"}
            /\ finishedLoops = plcIdx - 1
            /\ \A j \in 1..Len(exportLog) : exportLog[j].plc < plcIdx
            /\ \A p \in 1..finishedLoops :
                 /\ Len(LogOf(p)) = blockCounts[p]
                 /\ Cardinality(FailedIn(p)) < blockCounts[p] =>
                      Len(ReportsOf(p)) = 1

\* C20 witness: the compile for the second of two PLCs raised after a block
\* of the first PLC had been exported
C20_Witness ==
    /\ pc = "done"
    /\ plcs = 2
    /\ plcIdx = 2
    /\ finishedLoops = 1
    /\ calls # <<>>
    /\ LastCall = [op |-> "compile", ok |-> FALSE]
    /\ \E j \in 1..Len(exportLog) : exportLog[j].plc = 1 /\ exportLog[j].ok

\* C15: in the compatibility layer, a helper whose run of the translation
\* utility failed (utility missing, or non-zero exit) returns its argument;
\* no helper call lets an exception escape.
C15_FailedTranslationPassesThrough ==
    pathCalls >= 1 =>
        /\ ~pathRaised
        /\ (IS_WSL /\ utilityKind \in {"missing", "nonzero"}) => pathOut = pathIn

\* C15 witness: windows_path_to_wsl met a missing utility for C:\
C15_Witness ==
    /\ IS_WSL
    /\ pathFn = "windows_path_to_wsl"
    /\ utilityKind = "missing"
    /\ pathIn = <<"C", ":", "\\">>
    /\ pathOut = pathIn

\* A drive letter, a colon and a backslash at the start of p
DriveLetterPrefix(p) ==
    Len(p) >= 3 /\ SubSeq(p, 1, 3) \in {<<"C", ":", "\\">>}

\* A slash at the start of p
LeadingSlash(p) == p # <<>> /\ Head(p) = "/"

\* The argument of the last helper call is in the format the helper produces
AlreadyTarget ==
    \/ pathFn \in {"wsl_path_to_windows", "normalize_path"} /\ DriveLetterPrefix(pathIn)
    \/ pathFn = "windows_path_to_wsl" /\ LeadingSlash(pathIn)

\* C16: outside the compatibility layer, and for an argument already in the
\* target format, a helper returns its argument without running the
\* utility; so wsl_path_to_windows applied to a result that has the drive
\* letter prefix does not convert again.
C16_NoConversionWhenNotNeeded ==
    (pathCalls >= 1 /\ (~IS_WSL \/ AlreadyTarget)) =>
        /\ pathOut = pathIn
        /\ utilityRuns = 0
        /\ utilityKind = "not_run"
        /\ ~pathRaised

\* C16 witness: in the compatibility layer, wsl_path_to_windows was applied
\* to its own result C:\ and returned it without running the utility
C16_Witness ==
    /\ IS_WSL
    /\ pathCalls = 2
    /\ pathFn = "wsl_path_to_windows"
    /\ pathIn = <<"C", ":", "\\">>
    /\ pathOut = pathIn
    /\ utilityRuns = 0

\* The text of a pseudo-file holds the marker, in any case of letters
MarkerIn(text) == text \in {"microsoft", "Microsoft"}

\* The environment variable has a value (the empty string is none)
VariableSet(m) == m.envVar = "Ubuntu"

\* C17: detect_wsl() returns TRUE exactly when the kernel-version file holds
\* the marker, the environment variable is set or the OS-release file holds
\* the marker. The probes are consulted in that order up to the first
\* positive one; an unreadable file does not stop the later probes (the
\* OS-release file is consulted where platform.system() is Linux).
C17_DetectWsl ==
    detectCalls >= 1 =>
        /\ detected <=> \/ MarkerIn(machine.procVersion)
                        \/ VariableSet(machine)
                        \/ MarkerIn(machine.osrelease)
        /\ IS_WSL = detected
        /\ probes = SubSeq(<<"procVersion", "envVar", "osrelease">>, 1, Len(probes))
        /\ Len(probes) >= 1
        /\ ~MarkerIn(machine.procVersion) => Len(probes) >= 2
        /\ (~MarkerIn(machine.procVersion) /\ ~VariableSet(machine)
              /\ machine.system = "Linux") => Len(probes) = 3
        /\ MarkerIn(machine.procVersion) => Len(probes) = 1
        /\ (~MarkerIn(machine.procVersion) /\ VariableSet(machine)) => Len(probes) = 2

\* C17 witness: the kernel-version file cannot be read, the variable is not
\* set, and the capitalised marker of the OS-release file is found
C17_Witness ==
    /\ detectCalls >= 1
    /\ machine.procVersion = "unreadable"
    /\ machine.envVar = "unset"
    /\ machine.osrelease = "Microsoft"
    /\ detected
    /\ Len(probes) = 3

====
